---- MODULE Spec2Model ----
(***************************************************************************)
(* A model of CopyQueue.pyw: a queue of clipboard snapshots driven by five *)
(* hotkey handlers (fEnqueueCopyQueue, fDequeueCopyQueue, fPauseProg,      *)
(* fNextInQueue, fPrevInQueue) over four module globals and the OS         *)
(* clipboard.                                                              *)
(*                                                                         *)
(* Spec     : the handlers run one at a time, each as one atomic action.   *)
(* SpecConc : the handlers are dispatched concurrently on Threads, one     *)
(*            step per access to a global or to the clipboard.             *)
(***************************************************************************)
EXTENDS Integers, Sequences, FiniteSets

VARIABLES
    CopyQueue,   \* the list of snapshots (line 5)
    Qcount,      \* the counter kept beside the list (line 6)
    placeCount,  \* the navigation cursor (line 7)
    QueueMode,   \* TRUE: running, FALSE: paused (line 8)
    clipboard,   \* text on the OS clipboard, or NoText
    last,        \* what the most recent event did (history)
    tick,        \* parity of the number of events so far (history)
    appended,    \* every clipboard value a completed fEnqueueCopyQueue read, in order (history)
    pasted,      \* every value a completed fDequeueCopyQueue left on the clipboard (history)
    delivered,   \* for each paste that wrote the clipboard, the position in appended of the element written (history)
    dispatched,  \* SpecConc: number of callbacks started so far (history)
    pc,          \* SpecConc: each thread's position in its handler
    local        \* SpecConc: each thread's local values

vars == <<CopyQueue, Qcount, placeCount, QueueMode, clipboard,
          last, tick, appended, pasted, delivered, dispatched, pc, local>>

progVars == <<CopyQueue, Qcount, placeCount, QueueMode, clipboard>>

(* ------------------------------ bounds -------------------------------- *)

\* Number of appends explored (the list itself is unbounded in the code).
MaxCopies == 3

\* Number of callbacks started in a run of SpecConc.
MaxDispatch == 4

\* Number of concurrently dispatched callbacks in SpecConc.
NThreads == 2

Threads == 1..NThreads

\* Clipboard texts the user may copy; the empty string is one of them.
Data == {"a", "b", ""}

\* The clipboard holding no text (after EmptyClipboard).
NoText == "<none>"

\* How the clipboard behaves during one handler: it works, OpenClipboard
\* raises, or the Get/Set call after a successful open raises.
ClipEnv == {"ok", "openFails", "dataFails"}

(* ----------------------- Python list indexing ------------------------- *)

\* q[i] raises IndexError unless -len(q) <= i < len(q).
PyIndexOK(q, i) == -Len(q) <= i /\ i < Len(q)

\* q[i] for a valid i; a negative i counts from the end.
PyIndex(q, i) == IF i >= 0 THEN q[i + 1] ELSE q[Len(q) + i + 1]

\* Mutant: pop() without the index removes the newest element.
ListPopLast(q) == SubSeq(q, 1, Len(q) - 1)

\* q.pop(0): the list without its first element.
ListPop0(q) == Tail(q)

\* Mutant: insert(0, x) puts the new element at the head.
ListInsertFront(q, x) == <<x>> \o q

\* q.append(x)
ListAppend(q, x) == Append(q, x)

(* --------------------------- the globals ------------------------------ *)

State == [CopyQueue |-> CopyQueue, Qcount |-> Qcount, placeCount |-> placeCount,
          QueueMode |-> QueueMode, clipboard |-> clipboard]

InitState == [CopyQueue |-> <<>>, Qcount |-> 0, placeCount |-> 0,
              QueueMode |-> TRUE, clipboard |-> NoText]

\* Mutant: the else branch is lost, the flag can only be cleared.
fToggleQueueModeStuck(s) == [s EXCEPT !.QueueMode = FALSE]

fToggleQueueMode(s) == [s EXCEPT !.QueueMode = IF @ THEN FALSE ELSE TRUE]

\* Mutant: the increment lands on the other counter.
fAddCounterWrongGlobal(s) == [s EXCEPT !.placeCount = @ + 1]

fAddCounter(s) == [s EXCEPT !.Qcount = @ + 1]

\* Mutant: the increment lands on the other counter.
fPlaceCountAddCounterWrongGlobal(s) == [s EXCEPT !.Qcount = @ + 1]

fPlaceCountAddCounter(s) == [s EXCEPT !.placeCount = @ + 1]

fPlaceCountSubtractCounter(s) == [s EXCEPT !.placeCount = @ - 1]

\* Mutant: the decrement lands on the other counter.
fSubtractCounterWrongGlobal(s) == [s EXCEPT !.placeCount = @ - 1]

\* Mutant: the decrement is lost.
fSubtractCounterLost(s) == s

fSubtractCounter(s) == [s EXCEPT !.Qcount = @ - 1]

(* ------------------- the handlers, run to completion ------------------ *)

\* What one handler execution did: the globals after it, how it ended
\* ("skip": its guard was false; "ok"; or the exception that ended it), the
\* indices it used in CopyQueue[placeCount], and the clipboard calls it made.
Result(s, outcome, cursorIdx, clipOps) ==
    [st |-> s, outcome |-> outcome, cursorIdx |-> cursorIdx, clipOps |-> clipOps]

\* Mutant: the pause flag is not consulted.
EnqueueGuardAlways(s) == TRUE

EnqueueGuard(s) == s.QueueMode

fEnqueueCopyQueue(s, env) ==
    IF ~EnqueueGuard(s) THEN Result(s, "skip", {}, {})
    ELSE IF env = "openFails"
    THEN Result(s, "ClipboardUnavailable", {}, {"Open"})
    ELSE IF env = "dataFails" \/ s.clipboard = NoText
    THEN Result(s, "ClipboardUnavailable", {}, {"Open", "Get"})
    ELSE LET data == s.clipboard
             s1 == [s EXCEPT !.CopyQueue = ListAppend(@, data)]
             s2 == fAddCounter(s1)
         IN  IF PyIndexOK(s2.CopyQueue, Len(s2.CopyQueue) - 1)
             THEN Result(s2, "ok", {}, {"Open", "Get", "Close"})
             ELSE Result(s2, "IndexError", {}, {"Open", "Get", "Close"})

DequeueModeGuard(s) == s.QueueMode

\* Mutant: the size check before the pop is missing.
DequeueCountGuardMissing(s) == TRUE

DequeueCountGuard(s) == s.Qcount > 0

\* Mutant: the element is popped first and written to the clipboard afterwards.
fDequeuePopBeforeWrite(s, env) ==
    IF ~DequeueModeGuard(s) THEN Result(s, "skip", {}, {})
    ELSE IF ~DequeueCountGuard(s) THEN Result(s, "skip", {}, {})
    ELSE IF ~PyIndexOK(s.CopyQueue, 0) THEN Result(s, "IndexError", {}, {})
    ELSE LET x == PyIndex(s.CopyQueue, 0)
             s1 == fSubtractCounter([s EXCEPT !.CopyQueue = ListPop0(@)])
         IN  IF env = "openFails"
             THEN Result(s1, "ClipboardUnavailable", {}, {"Open"})
             ELSE IF env = "dataFails"
             THEN Result([s1 EXCEPT !.clipboard = NoText], "ClipboardUnavailable", {},
                         {"Open", "Empty", "Set"})
             ELSE Result([s1 EXCEPT !.clipboard = x], "ok", {},
                         {"Open", "Empty", "Set", "Close"})

fDequeueCopyQueue(s, env) ==
    IF ~DequeueModeGuard(s) THEN Result(s, "skip", {}, {})
    ELSE IF ~DequeueCountGuard(s) THEN Result(s, "skip", {}, {})
    ELSE IF ~PyIndexOK(s.CopyQueue, 0) THEN Result(s, "IndexError", {}, {})
    ELSE IF env = "openFails"
    THEN Result(s, "ClipboardUnavailable", {}, {"Open"})
    ELSE IF env = "dataFails"
    THEN Result([s EXCEPT !.clipboard = NoText], "ClipboardUnavailable", {},
                {"Open", "Empty", "Set"})
    ELSE LET s1 == [s EXCEPT !.clipboard = PyIndex(s.CopyQueue, 0)]
             s2 == [s1 EXCEPT !.CopyQueue = ListPop0(@)]
             s3 == fSubtractCounter(s2)
         IN  IF s3.CopyQueue = <<>> \/ PyIndexOK(s3.CopyQueue, Len(s3.CopyQueue) - 1)
             THEN Result(s3, "ok", {}, {"Open", "Empty", "Set", "Close"})
             ELSE Result(s3, "IndexError", {}, {"Open", "Empty", "Set", "Close"})

fPauseProg(s) == Result(fToggleQueueMode(s), "ok", {}, {})

\* Lines 83-86 and 94-97: replay CopyQueue[placeCount] onto the clipboard.
ReplayAtCursor(s, env) ==
    IF env = "openFails"
    THEN Result(s, "ClipboardUnavailable", {}, {"Open"})
    ELSE LET s1 == [s EXCEPT !.clipboard = NoText]
         IN  IF ~PyIndexOK(s1.CopyQueue, s1.placeCount)
             THEN Result(s1, "IndexError", {s1.placeCount}, {"Open", "Empty"})
             ELSE IF env = "dataFails"
             THEN Result(s1, "ClipboardUnavailable", {s1.placeCount},
                         {"Open", "Empty", "Set"})
             ELSE Result([s1 EXCEPT !.clipboard = PyIndex(s1.CopyQueue, s1.placeCount)],
                         "ok", {s1.placeCount}, {"Open", "Empty", "Set", "Close"})

\* Mutant: off by one at the tail.
NextGuardOffByOne(s) == s.Qcount > 0 /\ s.placeCount <= Len(s.CopyQueue) - 1

\* Mutant: navigation gated by the pause flag like copy and paste.
NextGuardGated(s) ==
    s.QueueMode /\ s.Qcount > 0 /\ s.placeCount < Len(s.CopyQueue) - 1

NextGuard(s) == s.Qcount > 0 /\ s.placeCount < Len(s.CopyQueue) - 1

fNextInQueue(s, env) ==
    IF ~NextGuard(s) THEN Result(s, "skip", {}, {})
    ELSE ReplayAtCursor(fPlaceCountAddCounter(s), env)

\* Mutant: the emptiness check is missing.
PrevGuardNoCount(s) == s.placeCount > 0

PrevGuard(s) == s.Qcount > 0 /\ s.placeCount > 0

fPrevInQueue(s, env) ==
    IF ~PrevGuard(s) THEN Result(s, "skip", {}, {})
    ELSE ReplayAtCursor(fPlaceCountSubtractCounter(s), env)

(* ------------------------ Spec: serial dispatch ----------------------- *)

\* A thread's locals outside a handler (SpecConc).
NoLocal == [data |-> NoText, tmp |-> 0, flag |-> FALSE]

NoEvent == [op |-> "none", outcome |-> "ok", cursorIdx |-> {}, clipOps |-> {}]

Init ==
    /\ CopyQueue = InitState.CopyQueue
    /\ Qcount = InitState.Qcount
    /\ placeCount = InitState.placeCount
    /\ QueueMode = InitState.QueueMode
    /\ clipboard = InitState.clipboard
    /\ last = NoEvent
    /\ tick = 0
    /\ appended = <<>>
    /\ pasted = <<>>
    /\ delivered = <<>>
    /\ dispatched = 0
    /\ pc = [t \in Threads |-> "idle"]
    /\ local = [t \in Threads |-> NoLocal]

\* CopyQueue is what is left of appended after the pops: the position in
\* appended of CopyQueue[0].
HeadPosition == Len(appended) - Len(CopyQueue) + 1

\* One handler execution with result r.
Handle(op, r) ==
    /\ CopyQueue' = r.st.CopyQueue
    /\ Qcount' = r.st.Qcount
    /\ placeCount' = r.st.placeCount
    /\ QueueMode' = r.st.QueueMode
    /\ clipboard' = r.st.clipboard
    /\ last' = [op |-> op, outcome |-> r.outcome, cursorIdx |-> r.cursorIdx,
                clipOps |-> r.clipOps]
    /\ tick' = 1 - tick
    /\ delivered' = IF op = "OnPaste" /\ r.outcome = "ok"
                    THEN Append(delivered, HeadPosition)
                    ELSE delivered
    /\ UNCHANGED <<dispatched, pc, local>>

\* ctrl+c
OnCopy ==
    \E env \in ClipEnv :
        LET r == fEnqueueCopyQueue(State, env)
            grew == Len(r.st.CopyQueue) > Len(CopyQueue)
        IN  /\ grew => Len(appended) < MaxCopies
            /\ Handle("OnCopy", r)
            /\ appended' = IF grew THEN Append(appended, clipboard) ELSE appended
            /\ UNCHANGED pasted

\* ctrl+v
OnPaste ==
    \E env \in ClipEnv :
        LET r == fDequeueCopyQueue(State, env)
        IN  /\ Handle("OnPaste", r)
            /\ pasted' = IF r.outcome = "ok" THEN Append(pasted, r.st.clipboard)
                         ELSE pasted
            /\ UNCHANGED appended

\* ctrl+b
OnPause ==
    /\ Handle("OnPause", fPauseProg(State))
    /\ UNCHANGED <<appended, pasted>>

\* ctrl+right
OnNext ==
    \E env \in ClipEnv :
        /\ Handle("OnNext", fNextInQueue(State, env))
        /\ UNCHANGED <<appended, pasted>>

\* ctrl+left
OnPrev ==
    \E env \in ClipEnv :
        /\ Handle("OnPrev", fPrevInQueue(State, env))
        /\ UNCHANGED <<appended, pasted>>

\* The foreground application (or any other) puts text x on the clipboard:
\* what GetClipboardData will read on the next ctrl+c.
ClipboardSet ==
    \E x \in Data :
        /\ clipboard' = x
        /\ last' = [NoEvent EXCEPT !.op = "ClipboardSet"]
        /\ tick' = 1 - tick
        /\ UNCHANGED <<CopyQueue, Qcount, placeCount, QueueMode, appended, pasted,
                       delivered, dispatched, pc, local>>

Next == OnCopy \/ OnPaste \/ OnPause \/ OnNext \/ OnPrev \/ ClipboardSet

Spec == Init /\ [][Next]_vars

(* ---------------------- SpecConc: concurrent dispatch ----------------- *)
(* Each callback runs on its own thread. A step is one access to a global *)
(* (the read and the write of Qcount = Qcount + 1 are two steps) or one   *)
(* clipboard call sequence; a label names the source line a thread is     *)
(* about to execute. An exception ends the handler where it is raised.    *)
(* Whether OpenClipboard succeeds while another thread is inside its own  *)
(* clipboard calls is left to the environment (both outcomes).            *)

EnqLabels == {"enq46", "enq48", "enq51", "enq52r", "enq52w", "enq53", "enq53i"}

Goto(t, l) == pc' = [pc EXCEPT ![t] = l]

Return(t) ==
    /\ pc' = [pc EXCEPT ![t] = "idle"]
    /\ local' = [local EXCEPT ![t] = NoLocal]

histConc == <<last, tick, pasted, delivered, dispatched>>

\* keyboard.add_hotkey: a key combination starts its callback on thread t.
Dispatch(t) ==
    /\ pc[t] = "idle"
    /\ dispatched < MaxDispatch
    /\ dispatched' = dispatched + 1
    /\ \E l \in {"enq46", "deq57", "pause13", "next80q", "prev92q"} :
           /\ l = "enq46" =>
                  Len(appended) + Cardinality({u \in Threads : pc[u] \in EnqLabels})
                      < MaxCopies
           /\ Goto(t, l)
    /\ UNCHANGED <<progVars, last, tick, pasted, delivered, appended, local>>

\* Another application puts text on the clipboard.
ClipboardSetConc ==
    /\ \E x \in Data : clipboard' = x
    /\ UNCHANGED <<CopyQueue, Qcount, placeCount, QueueMode, histConc, appended,
                   pc, local>>

(* fEnqueueCopyQueue *)

Enq46(t) ==
    /\ pc[t] = "enq46"
    /\ IF QueueMode THEN Goto(t, "enq48") /\ UNCHANGED local ELSE Return(t)
    /\ UNCHANGED <<progVars, histConc, appended>>

Enq48(t) ==
    /\ pc[t] = "enq48"
    /\ \E env \in ClipEnv :
           IF env = "ok" /\ clipboard # NoText
           THEN /\ local' = [local EXCEPT ![t].data = clipboard]
                /\ Goto(t, "enq51")
           ELSE Return(t)
    /\ UNCHANGED <<progVars, histConc, appended>>

Enq51(t) ==
    /\ pc[t] = "enq51"
    /\ CopyQueue' = ListAppend(CopyQueue, local[t].data)
    /\ appended' = Append(appended, local[t].data)
    /\ Goto(t, "enq52r")
    /\ UNCHANGED <<Qcount, placeCount, QueueMode, clipboard, histConc, local>>

Enq52r(t) ==
    /\ pc[t] = "enq52r"
    /\ local' = [local EXCEPT ![t].tmp = Qcount]
    /\ Goto(t, "enq52w")
    /\ UNCHANGED <<progVars, histConc, appended>>

Enq52w(t) ==
    /\ pc[t] = "enq52w"
    /\ Qcount' = local[t].tmp + 1
    /\ Goto(t, "enq53")
    /\ UNCHANGED <<CopyQueue, placeCount, QueueMode, clipboard, histConc, appended,
                   local>>

\* print(..., CopyQueue[len(CopyQueue) - 1], ..., Qcount): len first,
Enq53(t) ==
    /\ pc[t] = "enq53"
    /\ local' = [local EXCEPT ![t].tmp = Len(CopyQueue)]
    /\ Goto(t, "enq53i")
    /\ UNCHANGED <<progVars, histConc, appended>>

\* then the subscript (IndexError or not, the handler ends here).
Enq53i(t) ==
    /\ pc[t] = "enq53i"
    /\ Return(t)
    /\ UNCHANGED <<progVars, histConc, appended>>

(* fDequeueCopyQueue *)

Deq57(t) ==
    /\ pc[t] = "deq57"
    /\ IF QueueMode THEN Goto(t, "deq58") /\ UNCHANGED local ELSE Return(t)
    /\ UNCHANGED <<progVars, histConc, appended>>

Deq58(t) ==
    /\ pc[t] = "deq58"
    /\ IF Qcount > 0 THEN Goto(t, "deq59") /\ UNCHANGED local ELSE Return(t)
    /\ UNCHANGED <<progVars, histConc, appended>>

\* print(..., CopyQueue[0])
Deq59(t) ==
    /\ pc[t] = "deq59"
    /\ IF PyIndexOK(CopyQueue, 0) THEN Goto(t, "deq60") /\ UNCHANGED local
       ELSE Return(t)
    /\ UNCHANGED <<progVars, histConc, appended>>

\* OpenClipboard(); EmptyClipboard()
Deq60(t) ==
    /\ pc[t] = "deq60"
    /\ \E env \in {"ok", "openFails"} :
           IF env = "ok"
           THEN clipboard' = NoText /\ Goto(t, "deq62") /\ UNCHANGED local
           ELSE UNCHANGED clipboard /\ Return(t)
    /\ UNCHANGED <<CopyQueue, Qcount, placeCount, QueueMode, histConc, appended>>

\* SetClipboardText(CopyQueue[0]); CloseClipboard()
Deq62(t) ==
    /\ pc[t] = "deq62"
    /\ \E env \in {"ok", "dataFails"} :
           IF env = "ok" /\ PyIndexOK(CopyQueue, 0)
           THEN /\ clipboard' = PyIndex(CopyQueue, 0)
                /\ local' = [local EXCEPT ![t].data = PyIndex(CopyQueue, 0)]
                /\ delivered' = Append(delivered, HeadPosition)
                /\ Goto(t, "deq64")
           ELSE UNCHANGED <<clipboard, delivered>> /\ Return(t)
    /\ UNCHANGED <<CopyQueue, Qcount, placeCount, QueueMode, last, tick, pasted,
                   dispatched, appended>>

\* CopyQueue.pop(0)
Deq64(t) ==
    /\ pc[t] = "deq64"
    /\ IF PyIndexOK(CopyQueue, 0)
       THEN CopyQueue' = ListPop0(CopyQueue) /\ Goto(t, "deq65r") /\ UNCHANGED local
       ELSE UNCHANGED CopyQueue /\ Return(t)
    /\ UNCHANGED <<Qcount, placeCount, QueueMode, clipboard, histConc, appended>>

Deq65r(t) ==
    /\ pc[t] = "deq65r"
    /\ local' = [local EXCEPT ![t].tmp = Qcount]
    /\ Goto(t, "deq65w")
    /\ UNCHANGED <<progVars, histConc, appended>>

Deq65w(t) ==
    /\ pc[t] = "deq65w"
    /\ Qcount' = local[t].tmp - 1
    /\ Goto(t, "deq66")
    /\ UNCHANGED <<CopyQueue, placeCount, QueueMode, clipboard, histConc, appended,
                   local>>

\* if not CopyQueue: print(..., Qcount)  else: len(CopyQueue) for the print
Deq66(t) ==
    /\ pc[t] = "deq66"
    /\ IF CopyQueue = <<>> THEN Return(t)
       ELSE /\ local' = [local EXCEPT ![t].tmp = Len(CopyQueue)]
            /\ Goto(t, "deq69i")
    /\ UNCHANGED <<progVars, histConc, appended>>

\* CopyQueue[len(CopyQueue) - 1], Qcount (IndexError or not, the handler ends).
Deq69i(t) ==
    /\ pc[t] = "deq69i"
    /\ Return(t)
    /\ UNCHANGED <<progVars, histConc, appended>>

(* fPauseProg, fToggleQueueMode *)

Pause13(t) ==
    /\ pc[t] = "pause13"
    /\ local' = [local EXCEPT ![t].flag = QueueMode]
    /\ Goto(t, "pause14")
    /\ UNCHANGED <<progVars, histConc, appended>>

\* QueueMode = False / QueueMode = True; the read at line 17 is folded in.
Pause14(t) ==
    /\ pc[t] = "pause14"
    /\ QueueMode' = IF local[t].flag THEN FALSE ELSE TRUE
    /\ pc' = [pc EXCEPT ![t] = "pause75"]
    /\ local' = [local EXCEPT ![t] = NoLocal]
    /\ UNCHANGED <<CopyQueue, Qcount, placeCount, clipboard, histConc, appended>>

\* time.sleep(1)
Pause75(t) ==
    /\ pc[t] = "pause75"
    /\ Return(t)
    /\ UNCHANGED <<progVars, histConc, appended>>

(* fNextInQueue and fPrevInQueue; l is the step's label, m the next one *)

\* Qcount > 0
NavGuardQ(t, l, m) ==
    /\ pc[t] = l
    /\ IF Qcount > 0 THEN Goto(t, m) /\ UNCHANGED local ELSE Return(t)
    /\ UNCHANGED <<progVars, histConc, appended>>

\* ... and placeCount (read)
NavGuardP(t, l, m) ==
    /\ pc[t] = l
    /\ local' = [local EXCEPT ![t].tmp = placeCount]
    /\ Goto(t, m)
    /\ UNCHANGED <<progVars, histConc, appended>>

\* placeCount = placeCount + d: the read
NavCountR(t, l, m) ==
    /\ pc[t] = l
    /\ local' = [local EXCEPT ![t].tmp = placeCount]
    /\ Goto(t, m)
    /\ UNCHANGED <<progVars, histConc, appended>>

\* placeCount = placeCount + d: the write
NavCountW(t, l, m, d) ==
    /\ pc[t] = l
    /\ placeCount' = local[t].tmp + d
    /\ Goto(t, m)
    /\ UNCHANGED <<CopyQueue, Qcount, QueueMode, clipboard, histConc, appended, local>>

\* OpenClipboard(); EmptyClipboard()
NavOpen(t, l, m) ==
    /\ pc[t] = l
    /\ \E env \in {"ok", "openFails"} :
           IF env = "ok"
           THEN clipboard' = NoText /\ Goto(t, m) /\ UNCHANGED local
           ELSE UNCHANGED clipboard /\ Return(t)
    /\ UNCHANGED <<CopyQueue, Qcount, placeCount, QueueMode, histConc, appended>>

\* SetClipboardText(CopyQueue[placeCount]); CloseClipboard()
NavSet(t, l, m) ==
    /\ pc[t] = l
    /\ \E env \in {"ok", "dataFails"} :
           IF env = "ok" /\ PyIndexOK(CopyQueue, placeCount)
           THEN /\ clipboard' = PyIndex(CopyQueue, placeCount)
                /\ Goto(t, m)
                /\ UNCHANGED local
           ELSE UNCHANGED clipboard /\ Return(t)
    /\ UNCHANGED <<CopyQueue, Qcount, placeCount, QueueMode, histConc, appended>>

\* time.sleep(0.1)
NavSleep(t, l) ==
    /\ pc[t] = l
    /\ Return(t)
    /\ UNCHANGED <<progVars, histConc, appended>>

Next80q(t) == NavGuardQ(t, "next80q", "next80p")

Next80p(t) == NavGuardP(t, "next80p", "next80l")

\* placeCount < len(CopyQueue) - 1
Next80l(t) ==
    /\ pc[t] = "next80l"
    /\ IF local[t].tmp < Len(CopyQueue) - 1 THEN Goto(t, "next82r") /\ UNCHANGED local
       ELSE Return(t)
    /\ UNCHANGED <<progVars, histConc, appended>>

Next82r(t) == NavCountR(t, "next82r", "next82w")

Next82w(t) == NavCountW(t, "next82w", "next83", 1)

Next83(t) == NavOpen(t, "next83", "next85")

Next85(t) == NavSet(t, "next85", "next87")

Next87(t) == NavSleep(t, "next87")

Prev92q(t) == NavGuardQ(t, "prev92q", "prev92p")

\* placeCount > 0
Prev92p(t) ==
    /\ pc[t] = "prev92p"
    /\ IF placeCount > 0 THEN Goto(t, "prev93r") /\ UNCHANGED local ELSE Return(t)
    /\ UNCHANGED <<progVars, histConc, appended>>

Prev93r(t) == NavCountR(t, "prev93r", "prev93w")

Prev93w(t) == NavCountW(t, "prev93w", "prev94", -1)

Prev94(t) == NavOpen(t, "prev94", "prev96")

Prev96(t) == NavSet(t, "prev96", "prev98")

Prev98(t) == NavSleep(t, "prev98")

NextConc ==
    \/ ClipboardSetConc
    \/ \E t \in Threads :
           \/ Dispatch(t)
           \/ Enq46(t) \/ Enq48(t) \/ Enq51(t) \/ Enq52r(t) \/ Enq52w(t)
           \/ Enq53(t) \/ Enq53i(t)
           \/ Deq57(t) \/ Deq58(t) \/ Deq59(t) \/ Deq60(t) \/ Deq62(t) \/ Deq64(t)
           \/ Deq65r(t) \/ Deq65w(t) \/ Deq66(t) \/ Deq69i(t)
           \/ Pause13(t) \/ Pause14(t) \/ Pause75(t)
           \/ Next80q(t) \/ Next80p(t) \/ Next80l(t) \/ Next82r(t) \/ Next82w(t)
           \/ Next83(t) \/ Next85(t) \/ Next87(t)
           \/ Prev92q(t) \/ Prev92p(t) \/ Prev93r(t) \/ Prev93w(t)
           \/ Prev94(t) \/ Prev96(t) \/ Prev98(t)

SpecConc == Init /\ [][NextConc]_vars

(* ============================== claims ================================ *)

Nav == {"OnNext", "OnPrev"}

IsPrefix(p, q) == Len(p) <= Len(q) /\ SubSeq(q, 1, Len(p)) = p

\* C1 (as claimed): whenever CopyQueue is non-empty, 0 <= placeCount <= len(CopyQueue)-1.
\* Violated: fDequeueCopyQueue shortens the list and leaves placeCount alone.
C1_CursorInRange ==
    Len(CopyQueue) > 0 => 0 <= placeCount /\ placeCount <= Len(CopyQueue) - 1

\* C2: between handler executions Qcount = len(CopyQueue), also after handlers
\* that a clipboard failure ended part-way.
C2_CounterMatchesLength == Qcount = Len(CopyQueue)

\* C2 witness: a paste ended by a clipboard failure, after an earlier paste
\* succeeded, with snapshots still queued.
C2_Witness ==
    /\ last.op = "OnPaste"
    /\ last.outcome = "ClipboardUnavailable"
    /\ Len(pasted) > 0
    /\ Len(CopyQueue) > 0

\* C3: FIFO delivery. The values completed pastes wrote are a prefix of the
\* values appended, in order; and every paste executed with QueueMode true and a
\* non-empty list that no clipboard failure ends writes CopyQueue[0], removes
\* exactly that element (size - 1) and keeps the order of the rest.
C3_Fifo ==
    /\ [](IsPrefix(pasted, appended))
    /\ [][(/\ last'.op = "OnPaste"
           /\ QueueMode
           /\ Len(CopyQueue) > 0
           /\ last'.outcome # "ClipboardUnavailable")
          => (/\ last'.outcome = "ok"
              /\ clipboard' = CopyQueue[1]
              /\ pasted' = Append(pasted, CopyQueue[1])
              /\ Len(CopyQueue') = Len(CopyQueue) - 1
              /\ CopyQueue' = SubSeq(CopyQueue, 2, Len(CopyQueue)))]_vars

\* C3 witness: two different values were pasted, in the order they were
\* appended, and a third is still queued.
C3_Witness ==
    /\ last.op = "OnPaste"
    /\ last.outcome = "ok"
    /\ Len(pasted) = 2
    /\ pasted[1] # pasted[2]
    /\ Len(CopyQueue) > 0

\* C4: while QueueMode is false, fEnqueueCopyQueue and fDequeueCopyQueue change
\* none of CopyQueue, Qcount, placeCount, QueueMode and make no clipboard call
\* (no read by the copy handler, no write by the paste handler).
C4_PausedNoOp ==
    [][(~QueueMode /\ last'.op \in {"OnCopy", "OnPaste"})
       => (/\ UNCHANGED <<CopyQueue, Qcount, placeCount, QueueMode, clipboard>>
           /\ last'.clipOps = {}
           /\ last'.outcome = "skip")]_vars

\* C4 witness: a paste was executed while paused, with snapshots queued and
\* text on the clipboard.
C4_Witness ==
    /\ ~QueueMode
    /\ last.op = "OnPaste"
    /\ Len(CopyQueue) > 0
    /\ clipboard \in Data

\* Thread t is between its handler's first and its last access to the globals
\* CopyQueue, Qcount, placeCount, QueueMode: it has made the first access (it
\* left the handler's first label) and has not reached the sleep that follows
\* the last one.
MidHandler(t) ==
    pc[t] \notin {"idle", "enq46", "deq57", "pause13", "next80q", "prev92q",
                  "pause75", "next87", "prev98"}

\* C5 (as claimed): under concurrent dispatch no two handlers are at the same
\* time between their first and last access to the shared globals.
\* Violated: the handlers take no lock, so a second callback enters while the
\* first sleeps at line 47.
C5_MutualExclusion ==
    \A t \in Threads : \A u \in Threads :
        t # u => ~(MidHandler(t) /\ MidHandler(u))

\* C6: every fNextInQueue and fPrevInQueue execution, moving or not, leaves
\* CopyQueue, Qcount and QueueMode unchanged.
C6_NavigationFrame ==
    [][last'.op \in Nav => UNCHANGED <<CopyQueue, Qcount, QueueMode>>]_vars

\* C6 witness: a navigation step that moved the cursor and wrote the clipboard.
C6_Witness ==
    /\ last.op = "OnNext"
    /\ last.outcome = "ok"
    /\ placeCount > 0

\* C7: with CopyQueue empty, fNextInQueue and fPrevInQueue never evaluate
\* CopyQueue[placeCount] and make no clipboard call.
C7_NoIndexWhenEmpty ==
    [][(Len(CopyQueue) = 0 /\ last'.op \in Nav)
       => (/\ last'.cursorIdx = {}
           /\ last'.clipOps = {}
           /\ clipboard' = clipboard)]_vars

\* C7 witness: ctrl+left on an empty list whose cursor was left above 0.
C7_Witness ==
    /\ last.op = "OnPrev"
    /\ Len(CopyQueue) = 0
    /\ placeCount > 0

\* C8 (as claimed): when no clipboard failure intervenes, fNextInQueue with
\* placeCount < len-1 on a non-empty list adds 1 to placeCount and fPrevInQueue
\* with placeCount > 0 on a non-empty list subtracts 1, and each leaves
\* CopyQueue[new placeCount] on the clipboard.
\* Violated: after pastes shortened the list below the cursor, the new
\* placeCount is no index of the list.
C8_NavigationStep ==
    [][/\ (/\ last'.op = "OnNext"
           /\ last'.outcome # "ClipboardUnavailable"
           /\ Len(CopyQueue) > 0
           /\ placeCount < Len(CopyQueue) - 1)
          => (/\ placeCount' = placeCount + 1
              /\ placeCount' \in 0..(Len(CopyQueue) - 1)
              /\ clipboard' = CopyQueue[placeCount' + 1])
       /\ (/\ last'.op = "OnPrev"
           /\ last'.outcome # "ClipboardUnavailable"
           /\ Len(CopyQueue) > 0
           /\ placeCount > 0)
          => (/\ placeCount' = placeCount - 1
              /\ placeCount' \in 0..(Len(CopyQueue) - 1)
              /\ clipboard' = CopyQueue[placeCount' + 1])]_vars

\* C9: fNextInQueue with placeCount = len(CopyQueue)-1 and fPrevInQueue with
\* placeCount = 0 change nothing: cursor, list, counter, mode and clipboard
\* stay as they were, so any number of repetitions does too.
C9_BoundaryNoMove ==
    [][(\/ (last'.op = "OnNext" /\ placeCount = Len(CopyQueue) - 1)
        \/ (last'.op = "OnPrev" /\ placeCount = 0))
       => (/\ UNCHANGED progVars
           /\ last'.outcome = "skip"
           /\ last'.clipOps = {})]_vars

\* C9 witness: ctrl+right at the tail of a list of at least two snapshots.
C9_Witness ==
    /\ last.op = "OnNext"
    /\ last.outcome = "skip"
    /\ Len(CopyQueue) >= 2
    /\ placeCount = Len(CopyQueue) - 1

\* C10: in every reachable state and for every clipboard behaviour, the cursor
\* and clipboard that fNextInQueue (fPrevInQueue) produces, and how it ends, are
\* the same with QueueMode true as with QueueMode false.
C10_NavigationIgnoresPause ==
    \A env \in ClipEnv :
        LET on == [State EXCEPT !.QueueMode = TRUE]
            off == [State EXCEPT !.QueueMode = FALSE]
            Same(a, b) == /\ a.st.placeCount = b.st.placeCount
                          /\ a.st.clipboard = b.st.clipboard
                          /\ a.outcome = b.outcome
        IN  /\ Same(fNextInQueue(on, env), fNextInQueue(off, env))
            /\ Same(fPrevInQueue(on, env), fPrevInQueue(off, env))

\* C10 witness: ctrl+right moved the cursor and wrote the clipboard while paused.
C10_Witness ==
    /\ ~QueueMode
    /\ last.op = "OnNext"
    /\ last.outcome = "ok"
    /\ placeCount > 0
    /\ clipboard = CopyQueue[placeCount + 1]

\* C11: starting from the empty list, after N executions of fEnqueueCopyQueue
\* that read a value (QueueMode true) and no paste that removed anything, the
\* list has N elements, Qcount = N, and the list is the sequence of values read,
\* in read order; each such execution appends the value on the clipboard (the
\* empty string included) at the tail and leaves the earlier elements and
\* placeCount as they were.
C11_AppendOrder ==
    /\ [](pasted = <<>> => /\ CopyQueue = appended
                           /\ Len(CopyQueue) = Len(appended)
                           /\ Qcount = Len(appended))
    /\ [][(last'.op = "OnCopy" /\ QueueMode /\ last'.outcome # "ClipboardUnavailable")
          => (/\ last'.outcome = "ok"
              /\ Len(CopyQueue') = Len(CopyQueue) + 1
              /\ SubSeq(CopyQueue', 1, Len(CopyQueue)) = CopyQueue
              /\ CopyQueue'[Len(CopyQueue')] = clipboard
              /\ appended' = Append(appended, clipboard)
              /\ placeCount' = placeCount)]_vars

\* C11 witness: three copies and no paste; the values differ, the empty string
\* is among them, and the cursor was moved before the last copy.
C11_Witness ==
    /\ last.op = "OnCopy"
    /\ last.outcome = "ok"
    /\ pasted = <<>>
    /\ CopyQueue = <<"a", "", "b">>
    /\ placeCount = 1

\* C12: fDequeueCopyQueue executed on an empty list removes nothing and raises
\* nothing: CopyQueue, Qcount, placeCount, QueueMode and the clipboard stay as
\* they were and no clipboard call is made.
C12_PasteOnEmpty ==
    [][(last'.op = "OnPaste" /\ Len(CopyQueue) = 0)
       => (/\ UNCHANGED progVars
           /\ last'.outcome = "skip"
           /\ last'.clipOps = {})]_vars

\* C12 witness: ctrl+v while running, after earlier pastes emptied the list.
C12_Witness ==
    /\ last.op = "OnPaste"
    /\ QueueMode
    /\ Len(CopyQueue) = 0
    /\ Len(pasted) = 2
    /\ clipboard \in Data

\* C13 (as claimed): a handler that a clipboard failure ends leaves CopyQueue,
\* Qcount, placeCount and QueueMode as they were before it started.
\* Violated: fNextInQueue and fPrevInQueue move placeCount (lines 82, 93)
\* before the first clipboard call, and no handler catches the exception.
C13_ClipboardFailureDropsAction ==
    [][last'.outcome = "ClipboardUnavailable"
       => UNCHANGED <<CopyQueue, Qcount, placeCount, QueueMode>>]_vars

\* C14: QueueMode starts true; every fPauseProg execution flips it and changes
\* none of CopyQueue, Qcount, placeCount, clipboard; two executions in a row
\* restore the value it had.
C14_PauseToggle ==
    /\ QueueMode = TRUE
    /\ [](fPauseProg(fPauseProg(State).st).st = State)
    /\ [][last'.op = "OnPause"
          => (/\ QueueMode' = ~QueueMode
              /\ last'.outcome = "ok"
              /\ UNCHANGED <<CopyQueue, Qcount, placeCount, clipboard>>)]_vars

\* C14 witness: the flag is true again after ctrl+b (so it was cleared and set
\* back), with snapshots queued and the cursor moved.
C14_Witness ==
    /\ last.op = "OnPause"
    /\ QueueMode
    /\ Len(CopyQueue) > 1
    /\ placeCount > 0

\* C15: round trip. From an empty list with QueueMode true, a copy that reads x
\* followed at once by a paste leaves x on the clipboard and the list empty with
\* Qcount = 0, for every x: both as the two handlers composed on every
\* reachable empty state, and on every paste step that directly follows such a
\* copy (no clipboard failure in either).
C15_RoundTrip ==
    /\ [](CopyQueue = <<>> =>
            \A x \in Data :
                LET s0 == [State EXCEPT !.QueueMode = TRUE, !.clipboard = x]
                    r1 == fEnqueueCopyQueue(s0, "ok")
                    r2 == fDequeueCopyQueue(r1.st, "ok")
                IN  /\ r1.outcome = "ok" /\ r2.outcome = "ok"
                    /\ r1.st.CopyQueue = <<x>>
                    /\ r2.st.clipboard = x
                    /\ r2.st.CopyQueue = <<>>
                    /\ r2.st.Qcount = 0)
    /\ [][(/\ last.op = "OnCopy" /\ last.outcome = "ok"
           /\ Len(CopyQueue) = 1
           /\ last'.op = "OnPaste" /\ last'.outcome # "ClipboardUnavailable")
          => (/\ last'.outcome = "ok"
              /\ clipboard' = appended[Len(appended)]
              /\ CopyQueue' = <<>>
              /\ Qcount' = 0)]_vars

\* C15 witness: the empty string was copied into the empty list and pasted back.
C15_Witness ==
    /\ last.op = "OnPaste"
    /\ last.outcome = "ok"
    /\ appended = <<"">>
    /\ pasted = <<"">>
    /\ CopyQueue = <<>>
    /\ Qcount = 0
    /\ clipboard = ""

\* No handler is mid-execution.
AllIdle == \A t \in Threads : pc[t] = "idle"

\* C16 (as claimed): under concurrent dispatch, whenever no handler is
\* mid-execution, Qcount = len(CopyQueue).
\* Violated: two overlapping Qcount = Qcount + 1 lose an update.
C16_ConcurrentCounter == AllIdle => Qcount = Len(CopyQueue)

\* C17 (as claimed): every CopyQueue[placeCount] evaluated by fNextInQueue or
\* fPrevInQueue, handlers run one at a time, uses an index in 0..len-1 and
\* raises no IndexError.
\* Violated: fPrevInQueue after pastes shortened the list below the cursor.
C17_NavigationIndexInRange ==
    last.op \in Nav =>
        /\ \A i \in last.cursorIdx : 0 <= i /\ i <= Len(CopyQueue) - 1
        /\ last.outcome # "IndexError"

\* C18 (as claimed): under concurrent dispatch no appended snapshot is written
\* to the clipboard by two pastes, and no thread executes CopyQueue.pop(0) on
\* an empty list.
\* Violated: two pastes both pass Qcount > 0 and both write CopyQueue[0].
C18_DeliveredOnce ==
    /\ [](\A i \in 1..Len(delivered) : \A j \in 1..Len(delivered) :
              i # j => delivered[i] # delivered[j])
    /\ [][\A t \in Threads :
              (pc[t] = "deq64" /\ pc'[t] # "deq64") => CopyQueue # <<>>]_vars

\* C19: fDequeueCopyQueue removes an element only once that element has been
\* written to the clipboard (SetClipboardText and CloseClipboard returned); when
\* a clipboard call fails, the list (its head included) and Qcount are as before.
C19_NoSnapshotLost ==
    [][last'.op = "OnPaste"
       => (/\ CopyQueue' # CopyQueue
                => (/\ Len(CopyQueue) > 0
                    /\ CopyQueue' = Tail(CopyQueue)
                    /\ clipboard' = CopyQueue[1]
                    /\ {"Set", "Close"} \subseteq last'.clipOps
                    /\ last'.outcome = "ok")
           /\ last'.outcome = "ClipboardUnavailable"
                => (CopyQueue' = CopyQueue /\ Qcount' = Qcount))]_vars

\* C19 witness: SetClipboardText failed in a paste, after EmptyClipboard, with
\* two snapshots queued; both are still there.
C19_Witness ==
    /\ last.op = "OnPaste"
    /\ last.outcome = "ClipboardUnavailable"
    /\ "Set" \in last.clipOps
    /\ clipboard = NoText
    /\ Len(pasted) = 1
    /\ Len(CopyQueue) = 2
    /\ Qcount = 2

\* C20: no execution of fEnqueueCopyQueue or fDequeueCopyQueue changes
\* placeCount, whatever the paste removes.
C20_CopyPasteKeepCursor ==
    [][last'.op \in {"OnCopy", "OnPaste"} => placeCount' = placeCount]_vars

\* C20 witness: a paste emptied the list while the cursor stood at 2; the cursor
\* is still 2.
C20_Witness ==
    /\ last.op = "OnPaste"
    /\ last.outcome = "ok"
    /\ CopyQueue = <<>>
    /\ placeCount = 2

====
